---- MODULE Spec2Model ----
(***************************************************************************)
(* State-machine model of the SSO relying-party core of main.py:           *)
(*   PublicKeyManager  (key store: memory slot + cache file)               *)
(*   TokenValidator    (validate_token / _validate_token_logic,            *)
(*                      refresh_token)                                     *)
(*   SessionManager    (set_session, clear_session, refresh_loop)          *)
(*   auth_middleware   (interactive path)                                  *)
(*                                                                         *)
(* A coroutine is modelled by the segments between its suspension points   *)
(* (the awaited HTTP calls and asyncio.sleep); one action runs one         *)
(* segment to the next suspension or to the return.                        *)
(***************************************************************************)
EXTENDS Integers, Sequences, FiniteSets, TLC

\* ------------------------------------------------------------------ bounds
\* The clock runs over 0..MaxTime; token expiry times are taken in
\* 1..MaxTime + 1.
MaxTime == 1
\* Cap on the length of the event trace of one validate_token call.
MaxTrace == 12

\* Number of refresh tasks that can exist at once (live or awaiting the
\* delivery of their cancellation).
MaxTasks == 2

\* --------------------------------------------------------------- constants
None == "None"
\* Config.APP_AUDIENCE
APP_AUDIENCE == "nicegui-demo"
\* RSA keys the portal may sign with / serve.
Keys == {"k1", "k2"}

\* ------------------------------------------------------------------ tokens
\* A token string, by what jwt.decode and `if not token` can tell about it.
\*   form "empty"     : None or ""
\*   form "malformed" : not a decodable JWT
\*   form "jwt"       : a JWT signed with key `sig` carrying the claims
EmptyToken ==
    [form |-> "empty", sig |-> None, exp |-> 0, aud |-> None, jti |-> None]
MalformedToken ==
    [form |-> "malformed", sig |-> None, exp |-> 0, aud |-> None, jti |-> None]
JwtTokens ==
    [form : {"jwt"}, sig : Keys, exp : 1..(MaxTime + 1),
     aud : {APP_AUDIENCE, "otra-app", None}, jti : {"jti-1", "jti-2", None}]
AllTokens == {EmptyToken, MalformedToken} \cup JwtTokens

\* The claims jwt.decode returns for a token (payload_min).
PayloadMin(token) ==
    [iss |-> "portal", aud |-> token.aud, iat |-> 0, exp |-> token.exp,
     jti |-> token.jti, email |-> "test@example.com", sub |-> "123"]

\* The five claims carried over from the locally verified token.
JwtClaimNames == {"iss", "aud", "iat", "exp", "jti"}

\* ------------------------------------------------------- portal responses
EmptyDict == [f \in {} |-> None]
\* JSON objects the session-data endpoint may answer with.  The portal is not
\* trusted to leave the five JWT claims out of its answer.
PlainBody == [email |-> "test@example.com", name |-> "Test User"]
PartialBody ==
    [email |-> "test@example.com", name |-> "Test User",
     jti |-> "remote-jti", exp |-> 99]
ForgedBody ==
    [email |-> "test@example.com", name |-> "Test User", iss |-> "remote-iss",
     aud |-> "remote-aud", iat |-> 99, exp |-> 99, jti |-> "remote-jti"]
Bodies == {EmptyDict, PlainBody, PartialBody, ForgedBody}

\* What `await client.post(session_url, ...)` followed by response.json() can
\* give: an exception of the HTTP client, or a response with a status code
\* whose body is a JSON object, some other JSON value, or no JSON at all.
LookupResponses ==
    [kind : {"raise"}, exc : {"RequestError", "OtherError"},
     status : {0}, json : {"invalid"}, body : {EmptyDict}]
    \cup [kind : {"response"}, exc : {None}, status : {204, 500},
          json : {"invalid"}, body : {EmptyDict}]
    \cup [kind : {"response"}, exc : {None}, status : {200},
          json : {"invalid", "array"}, body : {EmptyDict}]
    \cup [kind : {"response"}, exc : {None}, status : {200},
          json : {"object"}, body : Bodies]

\* ------------------------------------------------------------- key store
\* KeyLookup that goes to the network whatever copies exist.
KeyLookupAlwaysFetch(force, mem, file, readOk) ==
    [kind |-> "fetch", key |-> None, mem |-> mem]

\* PublicKeyManager.get_public_key up to its first suspension: the in-memory
\* key, else the cache file (read_text may fail), else the network.
KeyLookup(force, mem, file, readOk) ==
    IF mem # None /\ ~force
    THEN [kind |-> "return", key |-> mem, mem |-> mem]
    ELSE IF ~force /\ file # None /\ readOk
    THEN [kind |-> "return", key |-> file, mem |-> file]
    ELSE [kind |-> "fetch", key |-> None, mem |-> mem]

\* ------------------------------------------------------------ jwt.decode
\* jwt.decode(token, public_key, algorithms=['RS256'], audience=APP_AUDIENCE,
\* options={'verify_exp': True}): the outcome is "ok" or the exception class.
\* The library checks the segments, then the signature, then exp, then aud.
\* Mutants of Decode: verify_exp switched off; no audience passed.
DecodeNoExpiry(token, key, t) ==
    IF token.form # "jwt" THEN "DecodeError"
    ELSE IF token.sig # key THEN "InvalidSignatureError"
    ELSE IF token.aud = None THEN "MissingRequiredClaimError"
    ELSE IF token.aud # APP_AUDIENCE THEN "InvalidAudienceError"
    ELSE "ok"
DecodeNoAudience(token, key, t) ==
    IF token.form # "jwt" THEN "DecodeError"
    ELSE IF token.sig # key THEN "InvalidSignatureError"
    ELSE IF token.exp <= t THEN "ExpiredSignatureError"
    ELSE "ok"

Decode(token, key, t) ==
    IF token.form # "jwt" THEN "DecodeError"
    ELSE IF token.sig # key THEN "InvalidSignatureError"
    ELSE IF token.exp <= t THEN "ExpiredSignatureError"
    ELSE IF token.aud = None THEN "MissingRequiredClaimError"
    ELSE IF token.aud # APP_AUDIENCE THEN "InvalidAudienceError"
    ELSE "ok"

\* Exception classes caught by `except (jwt.InvalidSignatureError, jwt.DecodeError)`.
SignatureErrors == {"InvalidSignatureError", "DecodeError"}
\* Subclasses of jwt.InvalidTokenError that jwt.decode can raise here.
InvalidTokenErrors ==
    SignatureErrors \cup
    {"ExpiredSignatureError", "InvalidAudienceError", "MissingRequiredClaimError"}

\* The except clauses of _validate_token_logic, in their order: what the frame
\* does with exception `exc` when it runs with force_refresh_key = force.
\*   "retry" : return await cls._validate_token_logic(token, True)
\*   "none"  : return None
\*   "raise" : the exception leaves the frame
\* Mutants of Handler: a signature failure is final; a signature failure is
\* retried whatever force_refresh_key is; an expired token is retried with a
\* fresh key; no `except Exception`; a network failure is retried.
HandlerNoRetry(exc, force) == "none"
HandlerAlwaysRetry(exc, force) ==
    IF exc \in SignatureErrors THEN "retry" ELSE "none"
HandlerRetryExpired(exc, force) ==
    IF exc \in SignatureErrors \cup {"ExpiredSignatureError"}
    THEN (IF ~force THEN "retry" ELSE "none")
    ELSE "none"
HandlerNoCatchAll(exc, force) ==
    IF exc \in SignatureErrors THEN (IF ~force THEN "retry" ELSE "none")
    ELSE IF exc \in InvalidTokenErrors \cup {"RequestError"} THEN "none"
    ELSE "raise"
HandlerRetryNetwork(exc, force) ==
    IF exc \in SignatureErrors \cup {"RequestError"}
    THEN (IF ~force THEN "retry" ELSE "none")
    ELSE "none"

Handler(exc, force) ==
    IF exc \in SignatureErrors THEN (IF ~force THEN "retry" ELSE "none")
    ELSE IF exc = "ExpiredSignatureError" THEN "none"
    ELSE IF exc = "InvalidAudienceError" THEN "none"
    ELSE IF exc \in InvalidTokenErrors THEN "none"
    ELSE IF exc = "RequestError" THEN "none"
    ELSE "none"

\* full_payload.update({...}): the five claims of payload_min replace or extend
\* whatever the portal's object holds under those names.
\* Mutant of Overlay: the portal's values win (payload_min only fills gaps).
OverlayRemoteWins(body, payload) ==
    [f \in (DOMAIN body) \cup JwtClaimNames |->
        IF f \in DOMAIN body THEN body[f] ELSE payload[f]]

Overlay(body, payload) ==
    [f \in (DOMAIN body) \cup JwtClaimNames |->
        IF f \in JwtClaimNames THEN payload[f] ELSE body[f]]

\* ------------------------------------------------- validate_token, by segment
\* The return value of validate_token: None, or the claims dict.
RetNone == [none |-> TRUE, claims |-> EmptyDict]
Ret(claims) == [none |-> FALSE, claims |-> claims]

\* No response received (yet).
NoResponse ==
    [kind |-> "none", exc |-> None, status |-> 0, json |-> "invalid",
     body |-> EmptyDict]

\* Events of one call, in order:
\*   "getkey"    get_public_key(force_refresh=False) called
\*   "refresh"   get_public_key(force_refresh=True) called
\*   "fetch"     GET of the public-key endpoint issued
\*   "fetched"   the GET answered with a key, now in memory
\*   "fetchfail" the GET failed, get_public_key raised RuntimeError
\*   "verified"  jwt.decode returned payload_min
\*   "sigfail"   jwt.decode raised InvalidSignatureError or DecodeError
\*   "rejected"  jwt.decode raised another exception
\*   "lookup"    POST to the session-data endpoint issued
\* The frame's locals: token, force (force_refresh_key), key (public_key),
\* resp (response); checked_at is the time of the last jwt.decode and
\* called_at the time of the call.
IdleCall ==
    [pc |-> "idle", token |-> EmptyToken, force |-> FALSE, key |-> None,
     called_at |-> 0, checked_at |-> 0, trace |-> <<>>, resp |-> NoResponse,
     result |-> RetNone, raised |-> None]

Count(seq, e) == Cardinality({i \in DOMAIN seq : seq[i] = e})

Log(v, e) == [v EXCEPT !.trace = Append(@, e)]

Finish(v, result) == [v EXCEPT !.pc = "done", !.result = result]

\* An exception `exc` raised inside the try block of the running frame.
RECURSIVE Attempt(_, _, _, _, _)
Caught(v, exc, mem, file, readOk, t) ==
    LET h == Handler(exc, v.force) IN
    IF h = "retry"
    THEN Attempt([v EXCEPT !.force = TRUE], mem, file, readOk, t)
    ELSE IF h = "none"
    THEN [v |-> Finish(v, RetNone), mem |-> mem]
    ELSE [v |-> [v EXCEPT !.pc = "done", !.raised = exc], mem |-> mem]

\* Lines 168-201: decode with `key`, then build the request and issue the
\* lookup; payload_min.get("jti")[:10] raises TypeError when jti is missing.
WithKey(v, key, mem, file, readOk, t) ==
    LET e == Decode(v.token, key, t)
        v1 == [v EXCEPT !.key = key, !.checked_at = t]
    IN  IF e \in SignatureErrors
        THEN Caught(Log(v1, "sigfail"), e, mem, file, readOk, t)
        ELSE IF e # "ok"
        THEN Caught(Log(v1, "rejected"), e, mem, file, readOk, t)
        ELSE IF v.token.jti = None
        THEN Caught(Log(v1, "verified"), "TypeError", mem, file, readOk, t)
        ELSE [v |-> [Log(Log(v1, "verified"), "lookup") EXCEPT !.pc = "lookup"],
              mem |-> mem]

\* One frame of _validate_token_logic from line 165 on, to its suspension.
Attempt(v, mem, file, readOk, t) ==
    LET r == KeyLookup(v.force, mem, file, readOk)
        v1 == Log(v, IF v.force THEN "refresh" ELSE "getkey")
    IN  IF r.kind = "fetch"
        THEN [v |-> [Log(v1, "fetch") EXCEPT !.pc = "fetch"], mem |-> r.mem]
        ELSE WithKey(v1, r.key, r.mem, file, readOk, t)

\* CallValidate without the `if not token` test of lines 156-158.
CallValidateNoEmptyCheck(token, mem, file, readOk, t) ==
    Attempt([IdleCall EXCEPT !.token = token, !.called_at = t], mem, file,
            readOk, t)

\* validate_token(token) from its call to its first suspension or return.
CallValidate(token, mem, file, readOk, t) ==
    LET v == [IdleCall EXCEPT !.token = token, !.called_at = t] IN
    IF token.form = "empty"
    THEN [v |-> Finish(v, RetNone), mem |-> mem]
    ELSE Attempt(v, mem, file, readOk, t)

\* FetchReturn whose failure drops the key held in memory.
FetchReturnFailureForgets(v, ok, writeOk, served, mem, file, t) ==
    IF ~ok
    THEN [r |-> Caught(Log(v, "fetchfail"), "RuntimeError", None, file, TRUE,
                       t),
          file |-> file]
    ELSE [r |-> WithKey(Log(v, "fetched"), served, served,
                        IF writeOk THEN served ELSE file, TRUE, t),
          file |-> IF writeOk THEN served ELSE file]

\* Lines 104-119 after the GET of the key answered: raise_for_status or the
\* transport failed (RuntimeError out of get_public_key), or the text is kept
\* in memory, written to the cache file (best effort) and used.
FetchReturn(v, ok, writeOk, served, mem, file, t) ==
    IF ~ok
    THEN [r |-> Caught(Log(v, "fetchfail"), "RuntimeError", mem, file, TRUE, t),
          file |-> file]
    ELSE [r |-> WithKey(Log(v, "fetched"), served, served,
                        IF writeOk THEN served ELSE file, TRUE, t),
          file |-> IF writeOk THEN served ELSE file]

\* Lines 203-237 and 257-265 after the lookup answered.
LookupReturn(v, resp, mem, file, t) ==
    LET v1 == [v EXCEPT !.resp = resp] IN
    IF resp.kind = "raise"
    THEN Caught(v1, resp.exc, mem, file, TRUE, t)
    ELSE IF resp.status # 200 THEN [v |-> Finish(v1, RetNone), mem |-> mem]
    ELSE IF resp.json # "object" THEN [v |-> Finish(v1, RetNone), mem |-> mem]
    ELSE [v |-> Finish(v1, Ret(Overlay(resp.body, PayloadMin(v.token)))),
          mem |-> mem]

\* ------------------------------------------------------------ refresh_token
\* Tokens the portal's refresh endpoint may hand out.
NewTokens ==
    {MalformedToken} \cup
    {t \in JwtTokens : t.exp = MaxTime + 1 /\ t.aud = APP_AUDIENCE}

\* What the POST to the refresh endpoint can give.  `token` is data.get('token')
\* when the body is a JSON object (EmptyToken: no or empty token field).
RefreshResponses ==
    [kind : {"raise"}, status : {0}, json : {"invalid"}, token : {EmptyToken}]
    \cup [kind : {"response"}, status : {500}, json : {"invalid"},
          token : {EmptyToken}]
    \cup [kind : {"response"}, status : {500}, json : {"object"},
          token : NewTokens]
    \cup [kind : {"response"}, status : {200}, json : {"invalid", "array"},
          token : {EmptyToken}]
    \cup [kind : {"response"}, status : {200, 201}, json : {"object"},
          token : NewTokens \cup {EmptyToken}]

NoRefreshResponse ==
    [kind |-> "none", status |-> 0, json |-> "invalid", token |-> EmptyToken]

\* refresh_token without raise_for_status: the body counts whatever the status.
RefreshOutcomeAnyStatus(resp) ==
    IF resp.kind = "raise" THEN [token |-> EmptyToken, raised |-> None]
    ELSE IF resp.json # "object" THEN [token |-> EmptyToken, raised |-> None]
    ELSE [token |-> resp.token, raised |-> None]

\* refresh_token (the second definition, which is the one the class keeps)
\* after the POST answered: the new token, or EmptyToken for None.  Every
\* exception in the try block is caught by `except Exception`.
RefreshOutcome(resp) ==
    IF resp.kind = "raise" THEN [token |-> EmptyToken, raised |-> None]
    ELSE IF resp.status \notin 200..299
    THEN [token |-> EmptyToken, raised |-> None]
    ELSE IF resp.json # "object" THEN [token |-> EmptyToken, raised |-> None]
    ELSE [token |-> resp.token, raised |-> None]

\* A refresh_token call: its argument, the POSTs it issued, the response,
\* the value it returned and the exception that left it.
IdleRefresh ==
    [pc |-> "idle", token |-> EmptyToken, posts |-> 0,
     resp |-> NoRefreshResponse, result |-> EmptyToken, raised |-> None]

\* ----------------------------------------------------------------- sessions
\* Browser sessions; app.storage.user is keyed by them.
Conns == {"A", "B"}
TaskIds == 1..MaxTasks

\* app.storage.user of a connection, by what .get() gives for each key the
\* code uses (EmptyToken, RetNone, -1, FALSE, None: key absent).
EmptyStorage ==
    [sso_token |-> EmptyToken, user_data |-> RetNone, login_time |-> -1,
     auth_checked |-> FALSE, auth_error |-> None]

\* A refresh_loop task: the connection whose request created it (its context
\* carries that connection's storage), where it is suspended and its locals.
\*   st "free"       not created, or ended
\*   st "sleep"      in asyncio.sleep(TOKEN_REFRESH_INTERVAL)
\*   st "refresh"    in refresh_token (POST in flight)
\*   st "validate"   in validate_token (v.pc tells which call is in flight)
\*   st "cancelled"  cancel() was called on it while it was suspended in one
\*                   of these; CancelledError is raised when it next runs
\* A cancelled task can only end, its locals are dropped at once.
FreeTask ==
    [owner |-> None, st |-> "free", cur |-> EmptyToken, new |-> EmptyToken,
     v |-> IdleCall]
NewTask(c) == [FreeTask EXCEPT !.owner = c, !.st = "sleep"]
CancelledTask(task) == [FreeTask EXCEPT !.st = "cancelled"]
LiveStates == {"sleep", "refresh", "validate"}
\* How a refresh_loop can stop on its own.
EndReasons == {"no_token", "refresh_failed", "invalid_token", "error"}

\* The locals of a suspended validate_token call, without its event log.
Frame(v) ==
    [v EXCEPT !.trace = <<>>, !.called_at = 0, !.checked_at = 0,
              !.resp = NoResponse]

\* A page request: the token being validated and the validate_token call.
IdleRequest == [pc |-> "idle", token |-> EmptyToken, v |-> IdleCall]

\* The key the portal signs with while sessions run.
SessionKey == "k1"
\* Tokens that reach the application in a session, in the URL of a request or
\* from the refresh endpoint: two the portal issued, and a forged one.  They
\* do not expire while the clock runs.
SessionTokens ==
    {t \in JwtTokens :
        /\ t.exp = MaxTime + 1 /\ t.aud = APP_AUDIENCE /\ t.jti # None
        /\ t.sig = SessionKey \/ t.jti = "jti-1"}
\* Outcomes of reading and writing the cache file while sessions run (the
\* failing ones are explored with the direct caller).
SessionCacheIO == {TRUE}
SessionLookupResponses ==
    {r \in LookupResponses :
        \/ r.kind = "raise" /\ r.exc = "RequestError"
        \/ r.kind = "response" /\ r.status = 500
        \/ r.kind = "response" /\ r.json = "object" /\ r.body = PlainBody}
SessionRefreshResponses ==
    {r \in RefreshResponses :
        \/ r.kind = "raise"
        \/ r.kind = "response" /\ r.status = 500 /\ r.json = "invalid"
        \/ r.kind = "response" /\ r.status = 200 /\ r.json = "object"
           /\ r.token \in SessionTokens \cup {EmptyToken}}

\* The session state the SessionManager methods and refresh_loop work on.
Sess(st, rt, tk, e) ==
    [storage |-> st, refresh_task |-> rt, tasks |-> tk, ended |-> e]

\* A cancel() that the task never observes.
CancelIgnored(tk, id) == tk

\* task.cancel(): a suspended task gets CancelledError at its await; a call on
\* a finished task does nothing.
Cancel(tk, id) ==
    IF id # 0 /\ tk[id].st \in LiveStates
    THEN [tk EXCEPT ![id] = CancelledTask(tk[id])]
    ELSE tk

FreeIds(tk) == {i \in TaskIds : tk[i].st = "free"}

\* Task `self` leaves refresh_loop for reason `why`.
End(S, self, why) ==
    [S EXCEPT !.tasks[self] = FreeTask, !.ended = why]

\* start_token_refresh without the cancel() of the task scheduled before.
StartTokenRefreshNoCancel(S, c) ==
    LET tk == S.tasks
        id == CHOOSE i \in FreeIds(tk) : \A j \in FreeIds(tk) : i <= j
    IN  [S EXCEPT !.refresh_task = id,
                  !.tasks = [tk EXCEPT ![id] = NewTask(c)],
                  !.ended = None]

\* SessionManager.start_token_refresh, called in the context of connection c.
StartTokenRefresh(S, c) ==
    LET tk == Cancel(S.tasks, S.refresh_task)
        id == CHOOSE i \in FreeIds(tk) : \A j \in FreeIds(tk) : i <= j
    IN  [S EXCEPT !.refresh_task = id,
                  !.tasks = [tk EXCEPT ![id] = NewTask(c)],
                  !.ended = None]

\* SessionManager.set_session, called in the context of connection c.
SetSession(S, c, token, user_data, t) ==
    StartTokenRefresh(
        [S EXCEPT !.storage[c].sso_token = token,
                  !.storage[c].user_data = user_data,
                  !.storage[c].login_time = t],
        c)

\* SessionManager.clear_session, called in the context of connection c.
ClearSession(S, c) ==
    [S EXCEPT !.storage[c] = EmptyStorage,
              !.refresh_task = 0,
              !.tasks = Cancel(S.tasks, S.refresh_task)]

\* AfterAuth whose failure branch records no auth_error.
AfterAuthNoError(S, c, token, v, t) ==
    IF v.raised # None THEN S
    ELSE IF ~v.result.none
    THEN [SetSession(S, c, token, v.result, t) EXCEPT
             !.storage[c].auth_checked = TRUE]
    ELSE [S EXCEPT !.storage[c].auth_checked = TRUE]

\* auth_middleware lines 527-534 with the result v of validate_token(token).
\* An exception out of validate_token leaves auth_middleware at once.
AfterAuth(S, c, token, v, t) ==
    IF v.raised # None THEN S
    ELSE IF ~v.result.none
    THEN [SetSession(S, c, token, v.result, t) EXCEPT
             !.storage[c].auth_checked = TRUE]
    ELSE [S EXCEPT !.storage[c].auth_checked = TRUE,
                   !.storage[c].auth_error = "Token invalido o expirado"]

\* AfterTickValidate with a loop that breaks on an invalid new token without
\* clear_session().
AfterTickValidateNoClear(S, self, v) ==
    LET task == S.tasks[self]
        c == task.owner
    IN  IF v.raised # None
        THEN End(S, self, "error")
        ELSE IF ~v.result.none
        THEN [S EXCEPT !.storage[c].sso_token = task.new,
                       !.storage[c].user_data = v.result,
                       !.tasks[self] = NewTask(c)]
        ELSE End(S, self, "invalid_token")

\* AfterTickValidate with a rotation that stores the new token and leaves
\* user_data as it was.
AfterTickValidateTokenOnly(S, self, v) ==
    LET task == S.tasks[self]
        c == task.owner
    IN  IF v.raised # None
        THEN End(S, self, "error")
        ELSE IF ~v.result.none
        THEN [S EXCEPT !.storage[c].sso_token = task.new,
                       !.tasks[self] = NewTask(c)]
        ELSE End(ClearSession(S, c), self, "invalid_token")

\* AfterTickValidate with a rotation that rebuilds the storage from the new
\* token and claims, dropping what set_session and auth_middleware had put.
AfterTickValidateFreshStorage(S, self, v) ==
    LET task == S.tasks[self]
        c == task.owner
    IN  IF v.raised # None
        THEN End(S, self, "error")
        ELSE IF ~v.result.none
        THEN [S EXCEPT !.storage[c] =
                          [EmptyStorage EXCEPT !.sso_token = task.new,
                                               !.user_data = v.result],
                       !.tasks[self] = NewTask(c)]
        ELSE End(ClearSession(S, c), self, "invalid_token")

\* refresh_loop lines 411-418 with the result of validate_token(new_token);
\* `self` is the running task.  An exception is caught by the loop's
\* `except Exception`, which breaks.
AfterTickValidate(S, self, v) ==
    LET task == S.tasks[self]
        c == task.owner
    IN  IF v.raised # None
        THEN End(S, self, "error")
        ELSE IF ~v.result.none
        THEN [S EXCEPT !.storage[c].sso_token = task.new,
                       !.storage[c].user_data = v.result,
                       !.tasks[self] = NewTask(c)]
        ELSE End(ClearSession(S, c), self, "invalid_token")

\* AfterRefreshFailed with a loop that breaks without clear_session().
AfterRefreshFailedNoClear(S, self) ==
    End(S, self, "refresh_failed")

\* refresh_loop lines 419-422: refresh_token returned None.
AfterRefreshFailed(S, self) ==
    End(ClearSession(S, S.tasks[self].owner), self, "refresh_failed")

\* ------------------------------------------------------------------- state
VARIABLES
    public_key,    \* PublicKeyManager._public_key (None or a key)
    cache_file,    \* content of Config.PUBLIC_KEY_PATH (None: no file)
    portal_key,    \* the key the portal serves and signs with now
    now,           \* the clock
    call,          \* a validate_token call of a direct caller
    rcall,         \* a refresh_token call of a direct caller
    storage,       \* app.storage.user of each connection
    refresh_task,  \* session_manager._refresh_task (0: None)
    tasks,         \* the refresh_loop tasks
    ended,         \* why the refresh_loop scheduled last stopped on its own
                   \* (None: it has not)
    req,           \* the page request in progress of each connection
    wake_at        \* when asyncio.sleep of each refresh_loop task returns

vars ==
    <<public_key, cache_file, portal_key, now, call, rcall,
      storage, refresh_task, tasks, ended, req, wake_at>>
sessvars == <<storage, refresh_task, tasks, ended, req, wake_at>>
callvars == <<call, rcall>>

Init ==
    /\ public_key = None
    /\ cache_file \in Keys \cup {None}
    /\ portal_key \in Keys
    /\ now = 0
    /\ call = IdleCall
    /\ rcall = IdleRefresh
    /\ storage = [c \in Conns |-> EmptyStorage]
    /\ refresh_task = 0
    /\ tasks = [i \in TaskIds |-> FreeTask]
    /\ ended = None
    /\ req = [c \in Conns |-> IdleRequest]
    /\ wake_at = [i \in TaskIds |-> 0]

\* ------------------------------------------------------------- environment
\* The portal rotates its signing key.
RotateKey ==
    /\ portal_key' \in Keys \ {portal_key}
    /\ UNCHANGED <<public_key, cache_file, now, call, rcall, sessvars>>

\* Time passes.
Tick ==
    /\ now < MaxTime
    /\ now' = now + 1
    /\ UNCHANGED <<public_key, cache_file, portal_key, call, rcall, sessvars>>

\* invalidate_cache that forgets the key in memory and leaves the file.
InvalidateCacheMemoryOnly ==
    /\ public_key' = None
    /\ UNCHANGED <<cache_file, portal_key, now, call, rcall, sessvars>>

\* PublicKeyManager.invalidate_cache
InvalidateCache ==
    /\ public_key' = None
    /\ cache_file' = None
    /\ UNCHANGED <<portal_key, now, call, rcall, sessvars>>

\* ------------------------------------------- a direct caller of the validator
CallerFree == call.pc = "idle" /\ rcall.pc = "idle"

\* The caller has taken the return value.
CallerReturn ==
    /\ call.pc = "done" \/ rcall.pc = "done"
    /\ call' = IdleCall
    /\ rcall' = IdleRefresh
    /\ UNCHANGED <<public_key, cache_file, portal_key, now, sessvars>>

\* await TokenValidator.validate_token(token)
VBegin ==
    /\ CallerFree
    /\ \E token \in AllTokens, readOk \in BOOLEAN :
         LET r == CallValidate(token, public_key, cache_file, readOk, now) IN
         /\ call' = r.v
         /\ public_key' = r.mem
    /\ UNCHANGED <<cache_file, portal_key, now, rcall, sessvars>>

\* The GET of the public key answers.
VFetchReturn ==
    /\ call.pc = "fetch"
    /\ Len(call.trace) < MaxTrace
    /\ \E ok \in BOOLEAN, writeOk \in BOOLEAN :
         LET f == FetchReturn(call, ok, writeOk, portal_key, public_key,
                              cache_file, now) IN
         /\ call' = f.r.v
         /\ public_key' = f.r.mem
         /\ cache_file' = f.file
    /\ UNCHANGED <<portal_key, now, rcall, sessvars>>

\* The POST to the session-data endpoint answers.
VLookupReturn ==
    /\ call.pc = "lookup"
    /\ \E resp \in LookupResponses :
         LET r == LookupReturn(call, resp, public_key, cache_file, now) IN
         /\ call' = r.v
         /\ public_key' = r.mem
    /\ UNCHANGED <<cache_file, portal_key, now, rcall, sessvars>>

\* await TokenValidator.refresh_token(current_token): the POST is issued.
RBegin ==
    /\ CallerFree
    /\ \E token \in AllTokens :
         rcall' = [IdleRefresh EXCEPT !.pc = "post", !.token = token,
                                      !.posts = 1]
    /\ UNCHANGED <<public_key, cache_file, portal_key, now, call, sessvars>>

\* The POST to the refresh endpoint answers.
RReturn ==
    /\ rcall.pc = "post"
    /\ \E resp \in RefreshResponses :
         LET o == RefreshOutcome(resp) IN
         rcall' = [rcall EXCEPT !.pc = "done", !.resp = resp,
                                !.result = o.token, !.raised = o.raised]
    /\ UNCHANGED <<public_key, cache_file, portal_key, now, call, sessvars>>

NextValidate ==
    \/ RotateKey
    \/ Tick
    \/ InvalidateCache
    \/ VBegin
    \/ VFetchReturn
    \/ VLookupReturn
    \/ RBegin
    \/ RReturn
    \/ CallerReturn

SpecValidate == Init /\ [][NextValidate]_vars

\* ------------------------------------------------------------ the application
CurrentSess == Sess(storage, refresh_task, tasks, ended)
\* The session state becomes S.
Becomes(S) ==
    /\ storage' = S.storage
    /\ refresh_task' = S.refresh_task
    /\ tasks' = S.tasks
    /\ ended' = S.ended

\* validate_token returned claims: set_session will need a task.
ReturnsClaims(v) == v.pc = "done" /\ v.raised = None /\ ~v.result.none
CanStartTask == FreeIds(Cancel(tasks, refresh_task)) # {}

\* A request of connection c whose validate_token call stands at v: it stays
\* suspended in it, or auth_middleware and index_page run to their end.
ContinueAuth(S, c, r, v, t) ==
    IF v.pc = "done"
    THEN [S |-> AfterAuth(S, c, r.token, v, t), req |-> IdleRequest]
    ELSE [S |-> S, req |-> [r EXCEPT !.pc = "validating", !.v = Frame(v)]]

\* A tick of task `self` whose validate_token call stands at v.
ContinueTick(S, self, v) ==
    IF v.pc = "done"
    THEN AfterTickValidate(S, self, v)
    ELSE [S EXCEPT !.tasks[self].st = "validate", !.tasks[self].v = Frame(v)]

\* GET / of connection c with `url` as its token parameter (EmptyToken: none):
\* index_page and auth_middleware lines 489-525, to the first suspension of
\* validate_token or to the rendered page.
Request(c) ==
    /\ req[c].pc = "idle"
    /\ \E url \in SessionTokens \cup {EmptyToken}, readOk \in SessionCacheIO :
         LET st1 == IF url # EmptyToken
                    THEN [storage[c] EXCEPT !.auth_checked = FALSE,
                                            !.auth_error = None]
                    ELSE storage[c]
             token == IF url # EmptyToken THEN url ELSE st1.sso_token
             r == [IdleRequest EXCEPT !.token = token]
         IN  IF st1.auth_checked
             THEN /\ storage' = [storage EXCEPT ![c] = st1]
                  /\ UNCHANGED <<public_key, refresh_task, tasks, ended, req>>
             ELSE IF token = EmptyToken
             THEN LET st2 == [st1 EXCEPT
                                !.auth_checked = TRUE,
                                !.auth_error = "No se proporciono token"]
                  IN  /\ storage' = [storage EXCEPT ![c] = st2]
                      /\ UNCHANGED <<public_key, refresh_task, tasks, ended,
                                     req>>
             ELSE LET k == CallValidate(token, public_key, cache_file,
                                        readOk, now)
                      S1 == [CurrentSess EXCEPT !.storage[c] = st1]
                  IN  /\ ReturnsClaims(k.v) => CanStartTask
                      /\ LET o == ContinueAuth(S1, c, r, k.v, now) IN
                         /\ Becomes(o.S)
                         /\ req' = [req EXCEPT ![c] = o.req]
                      /\ public_key' = k.mem
    /\ UNCHANGED <<cache_file, portal_key, now, callvars, wake_at>>

\* The GET of the public key answers the validate_token call of c's request.
ReqFetchReturn(c) ==
    /\ req[c].pc = "validating"
    /\ req[c].v.pc = "fetch"
    /\ \E ok \in BOOLEAN, writeOk \in SessionCacheIO :
         LET f == FetchReturn(req[c].v, ok, writeOk, portal_key, public_key,
                              cache_file, now)
         IN  /\ ReturnsClaims(f.r.v) => CanStartTask
             /\ LET o == ContinueAuth(CurrentSess, c, req[c], f.r.v, now) IN
                /\ Becomes(o.S)
                /\ req' = [req EXCEPT ![c] = o.req]
             /\ public_key' = f.r.mem
             /\ cache_file' = f.file
    /\ UNCHANGED <<portal_key, now, callvars, wake_at>>

\* The session-data lookup answers the validate_token call of c's request.
ReqLookupReturn(c) ==
    /\ req[c].pc = "validating"
    /\ req[c].v.pc = "lookup"
    /\ \E resp \in SessionLookupResponses :
         LET k == LookupReturn(req[c].v, resp, public_key, cache_file, now)
         IN  /\ ReturnsClaims(k.v) => CanStartTask
             /\ LET o == ContinueAuth(CurrentSess, c, req[c], k.v, now) IN
                /\ Becomes(o.S)
                /\ req' = [req EXCEPT ![c] = o.req]
             /\ public_key' = k.mem
    /\ UNCHANGED <<cache_file, portal_key, now, callvars, wake_at>>

\* logout() of connection c: session_manager.clear_session().
Logout(c) ==
    /\ Becomes(ClearSession(CurrentSess, c))
    /\ UNCHANGED <<public_key, cache_file, portal_key, now, callvars,
                   wake_at, req>>

Runnable(i) == tasks[i].st \in LiveStates

\* TaskWake without the check of lines 400-402: the POST is made with whatever
\* get_current_token() gave.
TaskWakeNoCheck(i) ==
    /\ Runnable(i)
    /\ tasks[i].st = "sleep"
    /\ LET cur == storage[tasks[i].owner].sso_token IN
       Becomes([CurrentSess EXCEPT !.tasks[i].st = "refresh",
                                   !.tasks[i].cur = cur])
    /\ UNCHANGED <<public_key, cache_file, portal_key, now, callvars,
                   wake_at, req>>

\* asyncio.sleep returns in task i: lines 400-405, to the POST of
\* refresh_token, or the break when the session holds no token.
TaskWake(i) ==
    /\ Runnable(i)
    /\ tasks[i].st = "sleep"
    /\ LET cur == storage[tasks[i].owner].sso_token IN
       Becomes(IF cur = EmptyToken
               THEN End(CurrentSess, i, "no_token")
               ELSE [CurrentSess EXCEPT !.tasks[i].st = "refresh",
                                        !.tasks[i].cur = cur])
    /\ UNCHANGED <<public_key, cache_file, portal_key, now, callvars,
                   wake_at, req>>

\* The POST of refresh_token answers in task i: lines 405-422, to the first
\* suspension of validate_token(new_token) or to the end of the tick.
TaskRefreshReturn(i) ==
    /\ Runnable(i)
    /\ tasks[i].st = "refresh"
    /\ \E resp \in SessionRefreshResponses, readOk \in SessionCacheIO :
         LET new == RefreshOutcome(resp).token IN
         IF new = EmptyToken
         THEN /\ Becomes(AfterRefreshFailed(CurrentSess, i))
              /\ UNCHANGED public_key
         ELSE LET k == CallValidate(new, public_key, cache_file, readOk, now)
                  S0 == [CurrentSess EXCEPT !.tasks[i].new = new]
              IN  /\ Becomes(ContinueTick(S0, i, k.v))
                  /\ public_key' = k.mem
    /\ UNCHANGED <<cache_file, portal_key, now, callvars,
                   wake_at, req>>

\* The GET of the public key answers the validate_token call of task i.
TaskFetchReturn(i) ==
    /\ Runnable(i)
    /\ tasks[i].st = "validate"
    /\ tasks[i].v.pc = "fetch"
    /\ \E ok \in BOOLEAN, writeOk \in SessionCacheIO :
         LET f == FetchReturn(tasks[i].v, ok, writeOk, portal_key, public_key,
                              cache_file, now)
         IN  /\ Becomes(ContinueTick(CurrentSess, i, f.r.v))
             /\ public_key' = f.r.mem
             /\ cache_file' = f.file
    /\ UNCHANGED <<portal_key, now, callvars,
                   wake_at, req>>

\* The session-data lookup answers the validate_token call of task i.
TaskLookupReturn(i) ==
    /\ Runnable(i)
    /\ tasks[i].st = "validate"
    /\ tasks[i].v.pc = "lookup"
    /\ \E resp \in SessionLookupResponses :
         LET k == LookupReturn(tasks[i].v, resp, public_key, cache_file, now)
         IN  /\ Becomes(ContinueTick(CurrentSess, i, k.v))
             /\ public_key' = k.mem
    /\ UNCHANGED <<cache_file, portal_key, now, callvars,
                   wake_at, req>>

\* CancelledError is raised at the await task i is suspended in; it passes
\* the `except Exception` clauses on its way and the loop breaks on it.
TaskCancelled(i) ==
    /\ tasks[i].st = "cancelled"
    /\ Becomes([CurrentSess EXCEPT !.tasks[i] = FreeTask])
    /\ UNCHANGED <<public_key, cache_file, portal_key, now, callvars,
                   wake_at, req>>

\* The steps of page requests, logouts and refresh tasks.
SessionStep ==
    \/ \E c \in Conns : Request(c)
    \/ \E c \in Conns : ReqFetchReturn(c)
    \/ \E c \in Conns : ReqLookupReturn(c)
    \/ \E c \in Conns : Logout(c)
    \/ \E i \in TaskIds : TaskWake(i)
    \/ \E i \in TaskIds : TaskRefreshReturn(i)
    \/ \E i \in TaskIds : TaskFetchReturn(i)
    \/ \E i \in TaskIds : TaskLookupReturn(i)
    \/ \E i \in TaskIds : TaskCancelled(i)

Next ==
    \/ Tick
    \/ SessionStep

\* Sessions run while the portal keeps its key; a cache file left by an
\* earlier run holds that key.  (Rotation and stale cache files are explored
\* with the direct caller.)
SessionInit ==
    /\ Init
    /\ portal_key = SessionKey
    /\ cache_file \in {None, SessionKey}
Spec == SessionInit /\ [][Next]_vars


\* The user storage of connection c is emptied from outside SessionManager
\* (app.storage.user belongs to NiceGUI: its file is removed, or the storage
\* is cleared by the framework's own API); no task is cancelled.
StorageWiped(c) ==
    /\ storage[c] # EmptyStorage
    /\ storage' = [storage EXCEPT ![c] = EmptyStorage]
    /\ UNCHANGED <<public_key, cache_file, portal_key, now, callvars, wake_at,
                   refresh_task, tasks, ended, req>>

NextWipe ==
    \/ SessionStep
    \/ \E c \in Conns : StorageWiped(c)

\* Sessions whose storage can also be emptied behind SessionManager's back,
\* at one instant of the clock.
SpecWipe == SessionInit /\ [][NextWipe]_vars

\* ----------------------------------------------------- sessions on the clock
\* The clock counts minutes.  Config.TOKEN_REFRESH_INTERVAL is 240 s; the
\* portal's tokens live 300 s.  Every call of a tick is bounded by its HTTP
\* timeout (3 s and 10 s), far below a minute: no time passes inside a tick.
TOKEN_REFRESH_INTERVAL == 4
TokenValidity == 5
MaxClock == 9

\* The connection whose session is followed on the clock.
TimedConns == {"A"}
\* A token of the portal that expires at `exp`.
TimedToken(exp) ==
    [form |-> "jwt", sig |-> SessionKey, exp |-> exp, aud |-> APP_AUDIENCE,
     jti |-> "jti-1"]

\* Time passes while no tick is running and no sleep is over.
TimedTick ==
    /\ now < MaxClock
    /\ \A i \in TaskIds :
          /\ tasks[i].st \notin {"refresh", "validate", "cancelled"}
          /\ tasks[i].st = "sleep" => now < wake_at[i]
    /\ now' = now + 1
    /\ UNCHANGED <<public_key, cache_file, portal_key, call, rcall, storage,
                   refresh_task, tasks, ended, req, wake_at>>

\* await session_manager.set_session(token, user_data) of auth_middleware
\* (line 528) for a token that validate_token has just accepted: it is not
\* expired, whatever is left of its validity.  The new task's sleep of
\* TOKEN_REFRESH_INTERVAL starts now.
TimedSetSession(c) ==
    /\ CanStartTask
    /\ \E exp \in (now + 1)..(now + TokenValidity) :
         LET token == TimedToken(exp)
             S == SetSession(CurrentSess, c, token,
                             Ret(Overlay(PlainBody, PayloadMin(token))), now)
         IN  /\ Decode(token, portal_key, now) = "ok"
             /\ Becomes([S EXCEPT !.storage[c].auth_checked = TRUE])
             /\ wake_at' = [wake_at EXCEPT
                               ![S.refresh_task] = now + TOKEN_REFRESH_INTERVAL]
    /\ UNCHANGED <<public_key, cache_file, portal_key, now, call, rcall, req>>

\* asyncio.sleep(TOKEN_REFRESH_INTERVAL) of task i is over: TaskWake.
TimedWake(i) ==
    /\ now >= wake_at[i]
    /\ TaskWake(i)

\* The POST of refresh_token answers in task i with a token issued now, or
\* the refresh fails (the portal decides what it does with an expired token).
TimedRefreshReturn(i) ==
    /\ Runnable(i)
    /\ tasks[i].st = "refresh"
    /\ \E ok \in BOOLEAN :
         IF ~ok
         THEN /\ Becomes(AfterRefreshFailed(CurrentSess, i))
              /\ UNCHANGED public_key
         ELSE LET new == TimedToken(now + TokenValidity)
                  k == CallValidate(new, public_key, cache_file, TRUE, now)
                  S0 == [CurrentSess EXCEPT !.tasks[i].new = new]
              IN  /\ Becomes(ContinueTick(S0, i, k.v))
                  /\ public_key' = k.mem
    /\ UNCHANGED <<cache_file, portal_key, now, call, rcall, req, wake_at>>

\* The session-data lookup answers the validate_token call of task i; after a
\* rotation the loop is back at asyncio.sleep(TOKEN_REFRESH_INTERVAL).
TimedLookupReturn(i) ==
    /\ Runnable(i)
    /\ tasks[i].st = "validate"
    /\ tasks[i].v.pc = "lookup"
    /\ \E resp \in SessionLookupResponses :
         LET k == LookupReturn(tasks[i].v, resp, public_key, cache_file, now)
             S == ContinueTick(CurrentSess, i, k.v)
         IN  /\ Becomes(S)
             /\ public_key' = k.mem
             /\ wake_at' = IF S.tasks[i].st = "sleep"
                           THEN [wake_at EXCEPT
                                   ![i] = now + TOKEN_REFRESH_INTERVAL]
                           ELSE wake_at
    /\ UNCHANGED <<cache_file, portal_key, now, call, rcall, req>>

NextTimed ==
    \/ TimedTick
    \/ \E c \in TimedConns : TimedSetSession(c)
    \/ \E i \in TaskIds : TimedWake(i)
    \/ \E i \in TaskIds : TimedRefreshReturn(i)
    \/ \E i \in TaskIds : TimedLookupReturn(i)
    \/ \E i \in TaskIds : TaskCancelled(i)

\* The key is in the cache file, so validate_token only waits for its lookup.
TimedInit ==
    /\ Init
    /\ portal_key = SessionKey
    /\ cache_file = SessionKey
SpecTimed == TimedInit /\ [][NextTimed]_vars

\* ===================================================================== claims
\* Helpers over the direct caller's validate_token call.
InTrace(e) == \E i \in DOMAIN call.trace : call.trace[i] = e
LastEvent == IF call.trace = <<>> THEN None ELSE call.trace[Len(call.trace)]
\* The lookup answered with status 200 and a JSON object.
LookupAnsweredOk ==
    /\ call.resp.kind = "response"
    /\ call.resp.status = 200
    /\ call.resp.json = "object"
\* The token passed jwt.decode with the key and at the time of the last decode.
LocallyValid ==
    /\ call.token.form = "jwt"
    /\ call.token.sig = call.key
    /\ call.token.exp > call.checked_at
    /\ call.token.aud = APP_AUDIENCE

\* C1: whenever validate_token returns claims, iss, aud, iat, exp and jti of
\* the result are those of the locally verified token, whatever the 200 body
\* of the session-data lookup held under those names; the other keys of the
\* result are the body's.
C1_LocalClaimsWin ==
    (call.pc = "done" /\ InTrace("lookup") /\ LookupAnsweredOk) =>
        /\ ~call.result.none
        /\ DOMAIN call.result.claims = (DOMAIN call.resp.body) \cup JwtClaimNames
        /\ \A f \in JwtClaimNames :
             call.result.claims[f] = PayloadMin(call.token)[f]
        /\ \A f \in (DOMAIN call.resp.body) \ JwtClaimNames :
             call.result.claims[f] = call.resp.body[f]
C1_Witness ==
    /\ call.pc = "done"
    /\ ~call.result.none
    /\ call.resp.body = ForgedBody

\* C2: the session-data lookup is issued only right after jwt.decode accepted
\* signature, expiry and audience with the key in use, and validate_token
\* returns claims only if that happened and the lookup answered 200 with a
\* JSON object.
C2_LookupOnlyAfterLocalVerification ==
    /\ \A j \in DOMAIN call.trace :
         call.trace[j] = "lookup" =>
            /\ j > 1
            /\ call.trace[j - 1] = "verified"
            /\ LocallyValid
    /\ (call.pc = "done" /\ ~call.result.none) =>
            /\ InTrace("lookup")
            /\ LocallyValid
            /\ LookupAnsweredOk
C2_Witness == call.pc = "lookup" /\ call.force

\* C3: the first signature failure of a call is answered by one forced key
\* refresh; when the key fetched by it verifies the token, the call goes on to
\* the lookup and succeeds, with that single forced refresh.
C3_RotationOneRefresh ==
    /\ \A i \in DOMAIN call.trace :
         (call.trace[i] = "sigfail" /\ \A j \in 1..(i - 1) : call.trace[j] # "sigfail")
            => /\ i + 2 <= Len(call.trace)
               /\ call.trace[i + 1] = "refresh"
               /\ call.trace[i + 2] = "fetch"
    /\ ( /\ \E i \in DOMAIN call.trace :
              /\ call.trace[i] = "refresh"
              /\ i + 2 <= Len(call.trace)
              /\ call.trace[i + 2] = "fetched"
         /\ LocallyValid
         /\ call.token.jti # None )
       => /\ Count(call.trace, "refresh") = 1
          /\ Count(call.trace, "lookup") = 1
          /\ LastEvent = "lookup"
          /\ call.pc \in {"lookup", "done"}
          /\ (call.pc = "done" /\ LookupAnsweredOk) => ~call.result.none
C3_Witness ==
    /\ call.pc = "done"
    /\ ~call.result.none
    /\ Count(call.trace, "sigfail") = 1
    /\ Count(call.trace, "refresh") = 1

\* C4: no call makes more than one forced key refresh; a second signature
\* failure (against the freshly fetched key) ends the call with None.
C4_OneRefreshThenNone ==
    /\ Count(call.trace, "refresh") <= 1
    /\ Count(call.trace, "sigfail") <= 2
    /\ Count(call.trace, "sigfail") = 2 =>
          /\ call.pc = "done"
          /\ call.result.none
          /\ call.raised = None
          /\ Count(call.trace, "refresh") = 1
          /\ LastEvent = "sigfail"
C4_Witness == call.pc = "done" /\ Count(call.trace, "sigfail") = 2

\* The call is for a JWT whose exp was in the past when it was made.
ExpiredAtCall ==
    /\ call.pc # "idle"
    /\ call.token.form = "jwt"
    /\ call.token.exp <= call.called_at

\* C5, as claimed: a token with exp in the past, whatever its signature, is
\* answered None without a forced key refresh and without a lookup.
C5_ExpiredNeverRefreshes ==
    ExpiredAtCall =>
        /\ ~InTrace("refresh")
        /\ ~InTrace("lookup")
        /\ call.pc = "done" => call.result.none
\* C5, amended: a token with exp in the past is answered None without a
\* lookup; no forced key refresh is made when its signature verifies against
\* the key of the first attempt, and exactly the one forced refresh of a
\* signature failure is made otherwise.
C5_ExpiredNoLookup ==
    ExpiredAtCall =>
        /\ ~InTrace("lookup")
        /\ ~InTrace("verified")
        /\ call.pc = "done" => (call.result.none /\ call.raised = None)
        /\ ~InTrace("sigfail") => ~InTrace("refresh")
        /\ Count(call.trace, "refresh") <= 1
C5_Witness ==
    /\ ExpiredAtCall
    /\ call.pc = "done"
    /\ call.token.sig = call.key
    /\ LastEvent = "rejected"

\* C6: a token whose aud is not APP_AUDIENCE is answered None and no
\* session-data lookup is ever issued for it.
C6_WrongAudienceNoLookup ==
    (call.pc # "idle" /\ call.token.form = "jwt" /\ call.token.aud # APP_AUDIENCE)
        => /\ ~InTrace("lookup")
           /\ call.pc = "done" => call.result.none
C6_Witness ==
    /\ call.pc = "done"
    /\ call.token.aud = "otra-app"
    /\ call.token.sig = call.key
    /\ call.token.exp > call.checked_at
    /\ LastEvent = "rejected"

\* C7: no exception leaves validate_token or refresh_token; a failed key
\* fetch, a failed decode, a missing jti, a failed lookup or a failed refresh
\* call all end in the return value None.
C7_NeverRaises ==
    /\ call.raised = None
    /\ rcall.raised = None
    /\ ( /\ call.pc = "done"
         /\ \/ LastEvent \in {"fetchfail", "sigfail", "rejected", "verified"}
            \/ call.resp.kind = "raise" )
       => call.result.none
    /\ ( /\ rcall.pc = "done"
         /\ \/ rcall.resp.kind = "raise"
            \/ rcall.resp.status = 500
            \/ rcall.resp.json # "object" )
       => rcall.result = EmptyToken
C7_Witness == call.pc = "done" /\ LastEvent = "fetchfail"

\* C8: a lookup that answers with another status than 200, with a body that
\* is no JSON object, or that fails on the network ends the call with None:
\* the lookup is issued at most once and nothing (no key refresh, no fetch)
\* follows it.
C8_LookupFailureIsFinal ==
    /\ Count(call.trace, "lookup") <= 1
    /\ \A i \in DOMAIN call.trace :
         call.trace[i] = "lookup" => i = Len(call.trace)
    /\ (call.pc = "done" /\ InTrace("lookup") /\ ~LookupAnsweredOk)
          => (call.result.none /\ call.raised = None)
C8_Witness ==
    /\ call.pc = "done"
    /\ InTrace("lookup")
    /\ call.resp.kind = "raise"
    /\ call.resp.exc = "RequestError"

\* ---- sessions
\* get_current_token() and get_current_user() with the storage st of the
\* calling connection.
GetCurrentToken(st) == st.sso_token
GetCurrentUser(st) == st.user_data

\* The tick of the scheduled task stops the loop in this step for `why`.
TickFails(why) ==
    /\ ended = None
    /\ ended' = why
    /\ refresh_task # 0
    /\ tasks[refresh_task].st \in {"refresh", "validate"}

\* The session of the connection that owned the scheduled task is cleared in
\* this step and the task has left its loop.
SessionCleared ==
    LET c == tasks[refresh_task].owner IN
    /\ GetCurrentToken(storage'[c]) = EmptyToken
    /\ GetCurrentUser(storage'[c]) = RetNone
    /\ storage'[c] = EmptyStorage
    /\ tasks'[refresh_task].st = "free"
    /\ refresh_task' = 0
    /\ \A i \in TaskIds : tasks'[i].st \notin LiveStates

\* C9: when a tick got a new token from the portal and validate_token of
\* it returned None, the session of the task's connection is cleared: no token
\* and no user data are stored afterwards (the old token is not kept), the
\* task has left its loop and no refresh task is scheduled.
C9_InvalidNewTokenClearsSession ==
    [][TickFails("invalid_token") => SessionCleared]_vars

C9_Witness ==
    /\ ended = "invalid_token"
    /\ refresh_task = 0
    /\ \A i \in TaskIds : tasks[i].st = "free"
    /\ \E c \in Conns : storage[c] = EmptyStorage

\* C10: when the refresh call of a tick fails (error raised, non-2xx status,
\* or an answer without a token), the session is cleared as for a failed
\* verification and the task leaves its loop; a task is in its refresh call
\* only for a session that holds a token, and a session without a token gets
\* one again only by set_session (which stamps login_time and schedules a
\* new task), so no refresh call follows the failure before a set_session.
C10_RefreshFailureIsTerminal ==
    [][/\ TickFails("refresh_failed") => SessionCleared
       /\ \A i \in TaskIds :
             tasks'[i].st = "refresh" =>
                GetCurrentToken(storage'[tasks'[i].owner]) # EmptyToken
       /\ \A c \in Conns :
             (/\ GetCurrentToken(storage[c]) = EmptyToken
              /\ GetCurrentToken(storage'[c]) # EmptyToken)
                => /\ storage'[c].login_time = now
                   /\ refresh_task' # 0
                   /\ tasks'[refresh_task'] = NewTask(c)
                   /\ ended' = None]_vars

C10_Witness ==
    /\ ended = "refresh_failed"
    /\ refresh_task = 0
    /\ \A i \in TaskIds : tasks[i].st \notin LiveStates
    /\ \E c \in Conns : storage[c] = EmptyStorage

\* The refresh tasks of connection c that are neither cancelled nor finished,
\* in the task table tk.
LiveTasksOf(tk, c) == {i \in TaskIds : tk[i].st \in LiveStates /\ tk[i].owner = c}

\* The page request of connection c ends in this step with set_session:
\* validate_token gave claims (auth_middleware lines 527-529).
SetSessionStep(c) ==
    /\ req[c].pc = "validating"
    /\ req'[c].pc = "idle"
    /\ storage'[c].auth_checked
    /\ storage'[c].auth_error = None

\* C11: a connection never has more than one live (not cancelled, not
\* finished) refresh task; right after a set_session of the connection it has
\* exactly one, the scheduled one, and the task that was scheduled before, if
\* it was still live, has been cancelled and is another task than the new one.
C11_OneLiveTaskPerSession ==
    [][\A c \in Conns :
         /\ Cardinality(LiveTasksOf(tasks', c)) <= 1
         /\ SetSessionStep(c) =>
              /\ refresh_task' # 0
              /\ LiveTasksOf(tasks', c) = {refresh_task'}
              /\ tasks'[refresh_task'] = NewTask(c)
              /\ (refresh_task # 0 /\ tasks[refresh_task].st \in LiveStates)
                    => /\ refresh_task' # refresh_task
                       /\ tasks'[refresh_task].st = "cancelled"]_vars

\* A set_session replaced a task that has not yet run to take its
\* cancellation: the old task and the new one exist side by side.
C11_Witness ==
    /\ refresh_task # 0
    /\ tasks[refresh_task].st \in LiveStates
    /\ \E i \in TaskIds : tasks[i].st = "cancelled"
    /\ storage[tasks[refresh_task].owner].login_time = now
    /\ now > 0

\* C12: clear_session of connection c (logout) leaves c without token and
\* user data, leaves no task scheduled and cancels the one that was; called on
\* a connection whose storage is empty (never set, or cleared before) it
\* changes no connection's storage and no refresh task.
C12_ClearSessionIdempotent ==
    [][\A c \in Conns :
         Logout(c) =>
            /\ GetCurrentToken(storage'[c]) = EmptyToken
            /\ GetCurrentUser(storage'[c]) = RetNone
            /\ storage'[c] = EmptyStorage
            /\ refresh_task' = 0
            /\ (refresh_task # 0 /\ tasks[refresh_task].st \in LiveStates)
                  => tasks'[refresh_task].st = "cancelled"
            /\ storage[c] = EmptyStorage => UNCHANGED <<storage, tasks>>]_vars

\* This step is a set_session, a clear_session or a failing refresh tick of
\* connection c.
SessionStepOf(c) ==
    \/ SetSessionStep(c)
    \/ Logout(c)
    \/ /\ \E why \in {"invalid_token", "refresh_failed"} : TickFails(why)
       /\ tasks[refresh_task].owner = c

\* C13: a set_session, a clear_session or a failing refresh tick of one
\* connection leaves every other connection's token and user data as they
\* were and leaves every live refresh task of another connection as it was
\* (not cancelled, not ended, not replaced).
C13_SessionsIndependent ==
    [][\A c \in Conns :
         SessionStepOf(c) =>
            \A b \in Conns \ {c} :
               /\ GetCurrentToken(storage'[b]) = GetCurrentToken(storage[b])
               /\ GetCurrentUser(storage'[b]) = GetCurrentUser(storage[b])
               /\ \A i \in LiveTasksOf(tasks, b) : tasks'[i] = tasks[i]]_vars

\* C14: every connection whose session is active (get_current_token() is not
\* None) has a live refresh task that will tick for it.  (The claim's second
\* half, that such a session's token is rotated again and again when the
\* portal accepts every refresh and verification, rests on this.)
C14_ActiveSessionHasLiveTask ==
    \A c \in Conns :
        GetCurrentToken(storage[c]) # EmptyToken => LiveTasksOf(tasks, c) # {}

\* The refresh tasks of connection c that are in the middle of a tick (in the
\* refresh call or in the verification of the new token), in task table tk.
TickingTasksOf(tk, c) ==
    {i \in LiveTasksOf(tk, c) : tk[i].st \in {"refresh", "validate"}}

\* C15: at most one tick of a connection's scheduler is in progress at any
\* time, and whenever a task of the connection starts a wait of the interval
\* (a new task after set_session, or the next round of the loop) no tick of
\* that connection is in progress: the tick before has completed or was
\* abandoned by cancellation.
C15_TicksDoNotOverlap ==
    [][\A c \in Conns :
         /\ Cardinality(TickingTasksOf(tasks', c)) <= 1
         /\ \A i \in TaskIds :
               (/\ tasks'[i].st = "sleep"
                /\ tasks'[i].owner = c
                /\ tasks[i].st # "sleep")
                  => TickingTasksOf(tasks', c) = {}]_vars

\* A task is in its tick while the task a set_session replaced has not yet
\* run to take its cancellation.
C15_Witness ==
    /\ refresh_task # 0
    /\ tasks[refresh_task].st = "validate"
    /\ \E i \in TaskIds : tasks[i].st = "cancelled"

\* The tick of the scheduled task, owned by c, ends in this step with the
\* rotation of c's token (refresh_loop lines 412-414) and the task goes back
\* to its wait.
RotationStep(c) ==
    /\ refresh_task # 0
    /\ tasks[refresh_task].owner = c
    /\ tasks[refresh_task].st \in {"refresh", "validate"}
    /\ GetCurrentToken(storage[c]) # EmptyToken
    /\ GetCurrentToken(storage'[c]) # EmptyToken
    /\ refresh_task' = refresh_task
    /\ tasks'[refresh_task] = NewTask(c)

\* C16: sso_token and user_data of a connection change only by a
\* set_session of the connection, by a wipe of its storage, or by the
\* rotation of the task that is scheduled now (the one the latest set_session
\* started) for a session that holds a token.  So a task that was cancelled
\* or replaced never writes them, whatever call its tick was waiting on: a
\* cleared session stays empty until a set_session, and a later session is
\* not overwritten by an older task.
C16_CancelledTaskNeverWrites ==
    [][\A c \in Conns :
         (\/ GetCurrentToken(storage'[c]) # GetCurrentToken(storage[c])
          \/ GetCurrentUser(storage'[c]) # GetCurrentUser(storage[c]))
            => \/ SetSessionStep(c)
               \/ storage'[c] = EmptyStorage
               \/ RotationStep(c)]_vars

\* A task cancelled by clear_session has not yet run to take its
\* cancellation, and no session holds a token.
C16_Witness ==
    /\ refresh_task = 0
    /\ \E i \in TaskIds : tasks[i].st = "cancelled"
    /\ \A c \in Conns : GetCurrentToken(storage[c]) = EmptyToken

\* The claim sets validate_token can resolve for a token: the lookup's body
\* overlaid with the token's own claims.
ResolvedClaims(token) == {Ret(Overlay(body, PayloadMin(token))) : body \in Bodies}

\* C17: in every state and for every connection, sso_token is stored exactly
\* when user_data is, and the stored user_data is a claim set validate_token
\* resolves for the stored sso_token (never the claims of another token).
C17_TokenAndClaimsMatch ==
    \A c \in Conns :
        /\ GetCurrentToken(storage[c]) = EmptyToken
              <=> GetCurrentUser(storage[c]) = RetNone
        /\ GetCurrentToken(storage[c]) # EmptyToken
              => GetCurrentUser(storage[c])
                    \in ResolvedClaims(GetCurrentToken(storage[c]))

\* A tick is verifying a new token, other than the stored one, while a page
\* request of the same connection is verifying its own.
C17_Witness ==
    \E c \in Conns :
        /\ refresh_task # 0
        /\ tasks[refresh_task].owner = c
        /\ tasks[refresh_task].st = "validate"
        /\ tasks[refresh_task].new # GetCurrentToken(storage[c])
        /\ GetCurrentToken(storage[c]) # EmptyToken
        /\ req[c].pc = "validating"

\* Task i comes out of its wait in this step and finds no token in the
\* storage of its connection.
WakesWithoutToken(i) ==
    /\ tasks[i].st = "sleep"
    /\ tasks'[i].st \notin {"sleep", "cancelled"}
    /\ GetCurrentToken(storage[tasks[i].owner]) = EmptyToken

\* C18: a task that comes out of its wait and finds no token in the session
\* leaves its loop at once by the plain break (no exception), without a call
\* to the refresh endpoint and without a change to any storage or to the
\* scheduled-task handle; ended, it never ticks again.  In general a refresh
\* call is started only by a task that found a token.
C18_NoTokenEndsLoopQuietly ==
    [][\A i \in TaskIds :
         /\ WakesWithoutToken(i) =>
               /\ tasks'[i] = FreeTask
               /\ ended' = "no_token"
               /\ UNCHANGED <<storage, refresh_task, req>>
               /\ \A j \in TaskIds \ {i} : tasks'[j] = tasks[j]
         /\ (tasks'[i].st = "refresh" /\ tasks[i].st # "refresh") =>
               /\ tasks[i].st = "sleep"
               /\ GetCurrentToken(storage[tasks[i].owner]) # EmptyToken
               /\ tasks'[i].cur = GetCurrentToken(storage[tasks[i].owner])]_vars

\* The loop of the scheduled task has ended on a missing token; the handle
\* still refers to that task.
C18_Witness ==
    /\ ended = "no_token"
    /\ refresh_task # 0
    /\ tasks[refresh_task] = FreeTask

\* ---- the public key and its two copies
\* The events the running validate_token call logs in this step.
NewEvents == SubSeq(call'.trace, Len(call.trace) + 1, Len(call'.trace))
\* get_public_key(force_refresh=False) went to the network in this step.
UnforcedFetch ==
    \E i \in DOMAIN NewEvents :
        i > 1 /\ NewEvents[i] = "fetch" /\ NewEvents[i - 1] = "getkey"
\* Every GET of the key is the only one of its get_public_key call: it
\* directly follows the call's own event.
OneFetchPerCall(trace) ==
    \A i \in DOMAIN trace :
        trace[i] = "fetch" => i > 1 /\ trace[i - 1] \in {"getkey", "refresh"}

\* C19 as stated: get_public_key(force_refresh=False) makes no network call
\* when a key is in memory or a cache file exists; a fetch happens only with
\* force_refresh=True or when neither copy exists, at most once per call.
C19_FetchOnlyWithoutCopies ==
    [][ /\ UnforcedFetch => (public_key = None /\ cache_file = None)
        /\ OneFetchPerCall(call'.trace) ]_vars

\* C19 amended: get_public_key(force_refresh=False) makes no network call
\* when a key is in memory, or when the cache file exists and can be read; it
\* fetches exactly when no key is in memory and the cache file is missing or
\* unreadable; every fetch belongs to one get_public_key call, forced or
\* not, and is its only one.
C19_FetchOnlyWithoutReadableCopy ==
    [][ /\ UnforcedFetch => public_key = None
        /\ \A readOk \in BOOLEAN :
              KeyLookup(FALSE, public_key, cache_file, readOk).kind = "fetch"
                 <=> (public_key = None /\ (cache_file = None \/ ~readOk))
        /\ OneFetchPerCall(call'.trace) ]_vars
C19_Witness ==
    /\ call.pc = "fetch"
    /\ ~call.force
    /\ public_key = None
    /\ cache_file # None

\* C20: whenever a key is in memory and a cache file exists, the two hold the
\* same key, after any sequence of get_public_key calls (forced or not, the
\* fetch or the cache write succeeding or failing) and invalidate_cache.
C20_MemoryMatchesCacheFile ==
    (public_key # None /\ cache_file # None) => public_key = cache_file

FetchEnds == call.pc = "fetch" /\ Len(call'.trace) > Len(call.trace)

\* C22: get_public_key raises exactly when it went to the network and the
\* GET failed: the failure is logged only as the end of a fetch, every fetch
\* ends either with the key or with the failure, a call served from memory
\* or from the cache file never raises; on the failure the key in memory and
\* the cache file are what they were.
C22_RaisesOnlyOnFailedFetch ==
    [][ /\ \A i \in DOMAIN call'.trace :
              call'.trace[i] = "fetchfail" => (i > 1 /\ call'.trace[i - 1] = "fetch")
        /\ FetchEnds => NewEvents[1] \in {"fetched", "fetchfail"}
        /\ ~FetchEnds => \A i \in DOMAIN NewEvents : NewEvents[i] # "fetchfail"
        /\ (FetchEnds /\ NewEvents[1] = "fetchfail")
              => UNCHANGED <<public_key, cache_file>>
        /\ (FetchEnds /\ NewEvents[1] = "fetched")
              => public_key' = portal_key ]_vars
C22_Witness ==
    /\ call.force
    /\ LastEvent = "fetchfail"
    /\ public_key # None
    /\ cache_file # None

\* The validate_token calls, of page requests and of refresh ticks, that wait
\* for the answer to their GET of the public key.
FetchingRequests ==
    {c \in Conns : req[c].pc = "validating" /\ req[c].v.pc = "fetch"}
FetchingTasks ==
    {i \in TaskIds : tasks[i].st = "validate" /\ tasks[i].v.pc = "fetch"}

\* C23: the fetch-and-store sequence of get_public_key is mutually exclusive:
\* at most one caller at a time is between the GET of the key and the store
\* of its answer to memory and to the cache file.
C23_OneFetchAtATime ==
    Cardinality(FetchingRequests) + Cardinality(FetchingTasks) <= 1

\* ---- refresh_token
\* C24: a refresh_token call issues its POST once, never again, and returns
\* the token of the response only when the status is 2xx and the body is a
\* JSON object with a non-empty token field; any other status, a failure of
\* the request (network, timeout) or a body without token gives None, and
\* nothing is raised.
C24_OnePostTokenOrNone ==
    /\ rcall.posts = (IF rcall.pc = "idle" THEN 0 ELSE 1)
    /\ rcall.pc = "done" =>
          /\ rcall.raised = None
          /\ rcall.result # EmptyToken
                <=> ( /\ rcall.resp.kind = "response"
                      /\ rcall.resp.status \in 200..299
                      /\ rcall.resp.json = "object"
                      /\ rcall.resp.token # EmptyToken )
          /\ rcall.result # EmptyToken => rcall.result = rcall.resp.token
\* A 500 whose body carries a token has been answered with None.
C24_Witness ==
    /\ rcall.pc = "done"
    /\ rcall.resp.status = 500
    /\ rcall.resp.token # EmptyToken
    /\ rcall.result = EmptyToken

\* ---- failures of the key store seen from validate_token
\* C25: a verification that cannot obtain a public key (no usable copy and a
\* failed fetch) ends with the key store's failure raised to the caller, not
\* with the None result of a rejected token.
C25_KeyUnavailablePropagates ==
    (call.pc = "done" /\ LastEvent = "fetchfail")
       => call.raised = "RuntimeError"

\* ---- page requests after the end of a session
\* auth_middleware of a request of connection c comes to its end in this
\* step, after a refresh failure ended c's session.  `ended` is reset by every
\* set_session, so the failure came after the last one; it emptied the storage
\* of the task's connection, and that is c when every other connection still
\* holds its token.
RequestEndsAfterRefreshFailure(c) ==
    /\ ended = "refresh_failed"
    /\ storage[c] = EmptyStorage
    /\ \A b \in Conns \ {c} : GetCurrentToken(storage[b]) # EmptyToken
    /\ storage'[c].auth_checked

\* C26 as stated: after a refresh failure ended the session, the next page
\* request ends in the authentication-error state (auth_error set, no
\* session), whatever token its URL carries.
C26_NextRequestShowsError ==
    [][ \A c \in Conns :
          RequestEndsAfterRefreshFailure(c)
             => /\ storage'[c].auth_error # None
                /\ GetCurrentToken(storage'[c]) = EmptyToken ]_vars

\* C26 amended: after a refresh failure ended the session, the next page
\* request ends in the authentication-error state when its URL carries no
\* token or a token that does not verify; a URL token that verifies
\* establishes a new session, with its refresh task and without auth_error.
C26_NextRequestErrorUnlessValidToken ==
    [][ \A c \in Conns :
          RequestEndsAfterRefreshFailure(c)
             => /\ (req[c].pc = "idle" \/ req[c].token.sig # portal_key)
                     => GetCurrentToken(storage'[c]) = EmptyToken
                /\ GetCurrentToken(storage'[c]) = EmptyToken
                     => /\ storage'[c].auth_error # None
                        /\ storage'[c] =
                              [EmptyStorage EXCEPT
                                 !.auth_checked = TRUE,
                                 !.auth_error = storage'[c].auth_error]
                /\ GetCurrentToken(storage'[c]) # EmptyToken
                     => /\ storage'[c].auth_error = None
                        /\ GetCurrentToken(storage'[c]) = req[c].token
                        /\ refresh_task' # 0
                        /\ tasks'[refresh_task'] = NewTask(c) ]_vars
C26_Witness ==
    /\ ended = "refresh_failed"
    /\ \E c \in Conns :
          /\ storage[c].auth_checked
          /\ storage[c].auth_error = "Token invalido o expirado"
          /\ GetCurrentToken(storage[c]) = EmptyToken
          /\ \A b \in Conns \ {c} : GetCurrentToken(storage[b]) # EmptyToken

\* auth_middleware of a request of c found its token invalid in this step.
InvalidTokenDetected(c) ==
    /\ req[c].pc = "validating"
    /\ req'[c].pc = "idle"
    /\ storage'[c].auth_error = "Token invalido o expirado"

\* C27: whenever an invalid token is detected, by auth_middleware or by the
\* refresh loop, the session is cleared: no token and no user data of the
\* session established before remain in the connection's storage.
C27_InvalidTokenClearsSession ==
    [][ /\ \A c \in Conns :
              InvalidTokenDetected(c)
                 => /\ GetCurrentToken(storage'[c]) = EmptyToken
                    /\ GetCurrentUser(storage'[c]) = RetNone
        /\ TickFails("invalid_token") => SessionCleared ]_vars

\* ---- refresh ticks on the clock
\* C28: with TOKEN_REFRESH_INTERVAL below the validity of a token, every
\* refresh call of a tick is made while the session's token is unexpired,
\* whatever validity the token had left when set_session stored it.
C28_RefreshBeforeExpiry ==
    [][ \A i \in TaskIds :
          (tasks[i].st = "sleep" /\ tasks'[i].st = "refresh")
             => tasks'[i].cur.exp > now ]_vars

\* The tick of task i ends in this step with a rotation: the task goes from
\* the verification of the new token back to its wait.
RotatesToken(i) == tasks[i].st = "validate" /\ tasks'[i].st = "sleep"

\* C29: a rotation writes the new token and its claims to the storage of the
\* task's connection and nothing else: login_time and the other keys keep
\* the values of the last set_session, other storages are untouched, the
\* scheduled task is the same task before and after, no other task changes.
C29_RotationWritesTokenAndClaimsOnly ==
    [][ \A i \in TaskIds :
          RotatesToken(i) =>
             LET c == tasks[i].owner IN
             /\ storage' = [storage EXCEPT
                              ![c].sso_token = tasks[i].new,
                              ![c].user_data = storage'[c].user_data]
             /\ storage'[c].user_data \in ResolvedClaims(tasks[i].new)
             /\ storage'[c].login_time = storage[c].login_time
             /\ refresh_task = i
             /\ refresh_task' = i
             /\ tasks'[i].owner = c
             /\ \A j \in TaskIds \ {i} : tasks'[j] = tasks[j] ]_vars
\* The stored token was issued after the session's login: it was rotated in.
C29_Witness ==
    \E c \in TimedConns :
        /\ GetCurrentToken(storage[c]) # EmptyToken
        /\ GetCurrentToken(storage[c]).exp > storage[c].login_time + TokenValidity
        /\ storage[c].auth_checked
        /\ refresh_task # 0
        /\ tasks[refresh_task] = NewTask(c)

\* ---- validate_token without a token
\* C30: validate_token of an empty or missing token returns None at once:
\* the public key is neither looked up nor read nor fetched, no forced
\* refresh and no session-data lookup are made, nothing is raised, and the
\* key in memory and the cache file are what they were.
C30_EmptyTokenTouchesNothing ==
    [][ (call.pc = "idle" /\ call'.pc # "idle" /\ call'.token = EmptyToken)
           => /\ call'.pc = "done"
              /\ call'.result = RetNone
              /\ call'.raised = None
              /\ call'.trace = <<>>
              /\ call'.key = None
              /\ UNCHANGED <<public_key, cache_file>> ]_vars
\* Such a call has returned where a key lookup would have read the file.
C30_Witness ==
    /\ call.pc = "done"
    /\ call.token = EmptyToken
    /\ public_key = None
    /\ cache_file # None

====
